---- MODULE Spec2Model ----
(***************************************************************************)
(* Model of add_data_to_tables.py: three CSV files are coerced row by row  *)
(* and bulk-inserted, in batches, into three Postgres tables over one      *)
(* connection, with one commit per table.                                  *)
(*                                                                         *)
(* Text is modelled as a sequence of one-character strings so that strip,  *)
(* replace and the parsers are computed, not assumed.  The pandas missing  *)
(* value (NaN) is the one-element sequence NaN, which is no real text.     *)
(***************************************************************************)
EXTENDS Integers, Sequences, FiniteSets, TLC

\* ------------------------------------------------------------------ bounds
MaxRows == 3
MaxBatch == 2
MaxLen == 4
MaxRecords == 2
MaxSize == 3

\* ------------------------------------------------------------ text helpers
NaN == << "<NaN>" >>
SPACE == " "
Digits == {"0", "1", "2", "3", "4", "5", "6", "7", "8", "9"}

isna(val) == val = NaN

RECURSIVE lstrip(_)
lstrip(s) == IF s # << >> /\ Head(s) = SPACE THEN lstrip(Tail(s)) ELSE s

RECURSIVE rstrip(_)
rstrip(s) ==
  IF s # << >> /\ s[Len(s)] = SPACE THEN rstrip(SubSeq(s, 1, Len(s) - 1)) ELSE s

strip(s) == rstrip(lstrip(s))

remove_commas(s) == SelectSeq(s, LAMBDA c : c # ",")

DigitVal(c) ==
  CASE c = "0" -> 0 [] c = "1" -> 1 [] c = "2" -> 2 [] c = "3" -> 3
    [] c = "4" -> 4 [] c = "5" -> 5 [] c = "6" -> 6 [] c = "7" -> 7
    [] c = "8" -> 8 [] c = "9" -> 9

AllDigits(s) == s # << >> /\ \A i \in 1..Len(s) : s[i] \in Digits

RECURSIVE DigitsVal(_)
DigitsVal(s) ==
  IF s = << >> THEN 0
  ELSE 10 * DigitsVal(SubSeq(s, 1, Len(s) - 1)) + DigitVal(s[Len(s)])

HasSign(s) == s # << >> /\ Head(s) \in {"+", "-"}
Unsigned(s) == IF HasSign(s) THEN Tail(s) ELSE s
Sign(s) == IF s # << >> /\ Head(s) = "-" THEN -1 ELSE 1

\* --------------------------------------------------------- coerced values
Val(kind, n, e, s) == [kind |-> kind, n |-> n, e |-> e, s |-> s]
None == Val("None", 0, 0, << >>)
Raised == Val("raise", 0, 0, << >>)
IntVal(n) == Val("int", n, 0, << >>)
TextVal(s) == Val("text", 0, 0, s)
DecimalVal(coeff, exp) == Val("Decimal", coeff, exp, << >>)
DateVal(y, m, d) == Val("date", y * 10000 + m * 100 + d, 0, << >>)
NaT == Val("NaT", 0, 0, << >>)

\* int(text): optional sign followed by decimal digits, else ValueError
int(s) ==
  IF AllDigits(Unsigned(s)) THEN IntVal(Sign(s) * DigitsVal(Unsigned(s)))
  ELSE Raised

\* to_int without its try/except: the ValueError of int() escapes
to_int_unguarded(val) ==
  IF isna(val) \/ strip(val) = << >> THEN None ELSE int(strip(val))

to_int(val) ==
  IF isna(val) \/ strip(val) = << >> THEN None
  ELSE LET r == int(strip(val)) IN IF r = Raised THEN None ELSE r

to_text(val) == IF isna(val) THEN TextVal(<< >>) ELSE TextVal(strip(val))

\* Decimal(text): optional sign, digits with at most one point and at least
\* one digit; the exponent is minus the number of digits after the point, so
\* the value is exact and trailing zeros are kept.
PointAt(s) == IF \E i \in 1..Len(s) : s[i] = "."
              THEN CHOOSE i \in 1..Len(s) : s[i] = "." /\ \A j \in 1..(i - 1) : s[j] # "."
              ELSE 0

Decimal(s) ==
  LET u == Unsigned(s)
      p == PointAt(u)
      ds == SelectSeq(u, LAMBDA c : c # ".")
  IN IF /\ AllDigits(ds)
        /\ Len(u) - Len(ds) <= 1
     THEN DecimalVal(Sign(s) * DigitsVal(ds), IF p = 0 THEN 0 ELSE -(Len(u) - p))
     ELSE Raised

to_numeric(val) ==
  IF isna(val) \/ strip(val) = << >> THEN None
  ELSE LET r == Decimal(strip(remove_commas(val))) IN IF r = Raised THEN None ELSE r

\* pd.to_datetime(val, errors="coerce"): the model accepts ISO calendar dates
\* (YYYY-MM-DD) and gives NaT for any other text.  With dtlib = "raise" the
\* call itself raises (a pandas release that rejects the keyword).
IsLeap(y) == (y % 4 = 0 /\ y % 100 # 0) \/ y % 400 = 0
DaysIn(y, m) ==
  IF m = 2 THEN (IF IsLeap(y) THEN 29 ELSE 28)
  ELSE IF m \in {4, 6, 9, 11} THEN 30 ELSE 31

to_datetime(val, dtlib) ==
  LET s == strip(val) IN
  IF dtlib = "raise" THEN Raised
  ELSE IF /\ Len(s) = 10
          /\ s[5] = "-" /\ s[8] = "-"
          /\ AllDigits(SubSeq(s, 1, 4)) /\ AllDigits(SubSeq(s, 6, 7))
          /\ AllDigits(SubSeq(s, 9, 10))
       THEN LET y == DigitsVal(SubSeq(s, 1, 4))
                m == DigitsVal(SubSeq(s, 6, 7))
                d == DigitsVal(SubSeq(s, 9, 10))
            IN IF m \in 1..12 /\ d \in 1..DaysIn(y, m) THEN DateVal(y, m, d) ELSE NaT
       ELSE NaT

to_date(val, dtlib) ==
  IF isna(val) \/ strip(val) = << >> THEN None
  ELSE LET dt == to_datetime(val, dtlib)
       IN IF dt = Raised \/ dt = NaT THEN None ELSE dt

\* ----------------------------------------------------------------- batcher
\* range(0, n, step): ValueError for step 0, empty for a negative step
RECURSIVE range_from(_, _, _)
range_from(i, n, step) ==
  IF i >= n THEN << >> ELSE << i >> \o range_from(i + step, n, step)

range(n, step) == IF step < 0 THEN << >> ELSE range_from(0, n, step)

Min(a, b) == IF a < b THEN a ELSE b

\* the slice seq[i : i + size - 1], one element short
slice_short(seq, i, size) == SubSeq(seq, i + 1, Min(i + size - 1, Len(seq)))

\* seq[i : i + size] with 0-based i and a non-negative size
slice(seq, i, size) == SubSeq(seq, i + 1, Min(i + size, Len(seq)))

\* the chunks chunk_iter yields, in order; size 0 raises at the first next()
chunk_raises(seq, size) == size = 0

chunk_iter(seq, size) ==
  LET starts == range(Len(seq), size)
  IN [k \in 1..Len(starts) |-> slice(seq, starts[k], size)]


\* ---------------------------------------------------------- table bindings
Tables == 1..3

required_gdpr_text ==
  << "chapter", "chapter_title", "article", "article_title", "sub_article",
     "gdpr_text", "href" >>

required_gdpr_violations_derived ==
  << "id", "picture", "name", "price", "authority", "date", "controller",
     "article_violated", "type", "source", "summary", "Article_no_der",
     "Sub_article_no_der" >>

csv_headers ==
  << "Content", "Article Number", "Article Name", "Chapter Number",
     "Chapter Name", "Article Word Count", "Question", "Answer",
     "Question Word Count", "Answer Word Count" >>

required(t) ==
  CASE t = 1 -> required_gdpr_text
    [] t = 2 -> required_gdpr_violations_derived
    [] t = 3 -> csv_headers

\* missing = [c for c in required if c not in df.columns]
missing(t, columns) == SelectSeq(required(t), LAMBDA c : c \notin columns)

row_gdpr_text(r) ==
  << to_int(r["chapter"]), to_text(r["chapter_title"]), to_int(r["article"]),
     to_text(r["article_title"]), to_text(r["sub_article"]),
     to_text(r["gdpr_text"]), to_text(r["href"]) >>

row_gdpr_violations_derived(r, dtlib) ==
  << to_int(r["id"]), to_text(r["picture"]), to_text(r["name"]),
     to_numeric(r["price"]), to_text(r["authority"]), to_date(r["date"], dtlib),
     to_text(r["controller"]), to_text(r["article_violated"]),
     to_text(r["type"]), to_text(r["source"]), to_text(r["summary"]),
     to_int(r["Article_no_der"]), to_text(r["Sub_article_no_der"]) >>

row_gdpr_dataset(r) ==
  << to_text(r["Content"]), to_int(r["Article Number"]),
     to_text(r["Article Name"]), to_int(r["Chapter Number"]),
     to_text(r["Chapter Name"]), to_int(r["Article Word Count"]),
     to_text(r["Question"]), to_text(r["Answer"]),
     to_int(r["Question Word Count"]), to_int(r["Answer Word Count"]) >>

map_row(t, r, dtlib) ==
  CASE t = 1 -> row_gdpr_text(r)
    [] t = 2 -> row_gdpr_violations_derived(r, dtlib)
    [] t = 3 -> row_gdpr_dataset(r)

\* rows = []; for _, r in df.iterrows(): rows.append((...))
map_rows(t, records, dtlib) ==
  [i \in 1..Len(records) |-> map_row(t, records[i], dtlib)]

\* the destination column types, in column order
ColumnKinds(t) ==
  CASE t = 1 -> << "int", "text", "int", "text", "text", "text", "text" >>
    [] t = 2 -> << "int", "text", "text", "Decimal", "text", "date", "text",
                   "text", "text", "text", "text", "int", "text" >>
    [] t = 3 -> << "text", "int", "text", "int", "text", "int", "text", "text",
                   "int", "int" >>


\* ------------------------------------------------------------------- state
VARIABLES
  exists,       \* os.path.exists of the three configured paths
  BATCH_SIZE,   \* int(os.getenv("BATCH_SIZE", "5000"))
  dtlib,        \* behaviour of the installed pd.to_datetime
  pc,           \* position in main() and in the running loader
  path_i,       \* index of the path the existence loop is at
  table,        \* the loader that is running (0: none)
  df,           \* per table, the data frame read_csv returned
  rows,         \* the running loader's list of row tuples
  k,            \* number of chunks the running loader has taken
  conn,         \* "None", "open" or "closed"
  txn,          \* rows inserted in the connection's open transaction
  db,           \* per table, the committed rows
  ops,          \* every call made on the database, in order
  inserts,      \* per table, the chunks passed to execute_values
  calls,        \* the loaders main() called, in order
  returned,     \* the loaders that returned normally
  failed,       \* the loader that raised (0: none)
  exc,          \* the exception main() caught ("": none)
  escaped,      \* an exception left main()
  reported,     \* index of the path printed as not found (0: none)
  exit_status,  \* -1 while running
  seq, size, groups, called,        \* one call of chunk_iter
  src_table, src, bad, out, mapped  \* one mapping of a source file

vars ==
  << exists, BATCH_SIZE, dtlib, pc, path_i, table, df, rows, k, conn, txn, db,
     ops, inserts, calls, returned, failed, exc, escaped, reported,
     exit_status, seq, size, groups, called, src_table, src, bad, out, mapped >>

chunk_vars == << seq, size, groups, called >>
map_vars == << src_table, src, bad, out, mapped >>
run_vars ==
  << exists, BATCH_SIZE, dtlib, pc, path_i, table, df, rows, k, conn, txn, db,
     ops, inserts, calls, returned, failed, exc, escaped, reported,
     exit_status >>

BatchSizes == {-1, 0} \cup (1..MaxBatch)
DtLibs == {"parse", "raise"}

\* ------------------------------------------------------------ source files
GoodInt == << "4", "2" >>
GoodDecimal == << "1", ",", "2", "3", "4", ".", "5", "0" >>
GoodDate == << "2", "0", "2", "0", "-", "0", "2", "-", "2", "9" >>
GoodText == << "a", " ", "b" >>

RawSamples ==
  << << " ", "7", " " >>, NaN, GoodDecimal, GoodDate, << " ", " " >>,
     << "-", "3" >>, << "1", "2", ".", "5" >>, << "x", "y" >> >>

\* the raw text of every field of data row i of a sample file
SampleRaw(i) == RawSamples[((i - 1) % Len(RawSamples)) + 1]

RequiredSet(t) == {required(t)[j] : j \in 1..Len(required(t))}

\* the headers a file of table t may have: all required columns, all and one
\* more, or all but one
Headers(t) ==
  { RequiredSet(t), RequiredSet(t) \cup {"extra"},
    RequiredSet(t) \ {required(t)[Len(required(t))]},
    RequiredSet(t) \ {required(t)[7]} }

\* pd.read_csv(csv_path, dtype=str) of a file with these columns and n rows
read_csv(columns, n) ==
  [columns |-> columns,
   records |-> [i \in 1..n |-> [c \in columns |-> SampleRaw(i)]]]

NoFrame == [columns |-> {}, records |-> << >>]

Op(name, t, ok) == [op |-> name, t |-> t, ok |-> ok]

\* ------------------------------------------------------------------ main()
RunInit ==
  /\ exists \in [Tables -> BOOLEAN]
  /\ BATCH_SIZE \in BatchSizes
  /\ dtlib \in DtLibs
  /\ pc = "check"
  /\ path_i = 1
  /\ table = 0
  /\ df = [t \in Tables |-> NoFrame]
  /\ rows = << >>
  /\ k = 0
  /\ conn = "None"
  /\ txn = << >>
  /\ db = [t \in Tables |-> << >>]
  /\ ops = << >>
  /\ inserts = [t \in Tables |-> << >>]
  /\ calls = << >>
  /\ returned = {}
  /\ failed = 0
  /\ exc = ""
  /\ escaped = FALSE
  /\ reported = 0
  /\ exit_status = -1

\* a loader raises: control goes to main()'s except clause
Raise(kind) ==
  /\ pc' = "except"
  /\ exc' = kind
  /\ failed' = table

\* the existence loop without sys.exit(1): the error is printed and the run
\* goes on
CheckPath_NoExit ==
  /\ pc = "check"
  /\ reported' = IF ~exists[path_i] /\ reported = 0 THEN path_i ELSE reported
  /\ IF path_i = 3 THEN pc' = "connect" ELSE pc' = "check"
  /\ path_i' = IF path_i = 3 THEN path_i ELSE path_i + 1
  /\ UNCHANGED << exists, BATCH_SIZE, dtlib, table, df, rows, k, conn, txn, db,
                  ops, inserts, calls, returned, failed, exc, escaped,
                  exit_status >>

\* for path in [...]: if not os.path.exists(path): print; sys.exit(1)
CheckPath ==
  /\ pc = "check"
  /\ IF ~exists[path_i]
     THEN /\ reported' = path_i
          /\ exit_status' = 1
          /\ pc' = "done"
          /\ UNCHANGED path_i
     ELSE /\ IF path_i = 3 THEN pc' = "connect" ELSE pc' = "check"
          /\ path_i' = IF path_i = 3 THEN path_i ELSE path_i + 1
          /\ UNCHANGED << reported, exit_status >>
  /\ UNCHANGED << exists, BATCH_SIZE, dtlib, table, df, rows, k, conn, txn, db,
                  ops, inserts, calls, returned, failed, exc, escaped >>


\* conn = psycopg2.connect(**DB_PARAMS)
Connect ==
  /\ pc = "connect"
  /\ \/ /\ conn' = "open"
        /\ ops' = Append(ops, Op("connect", 0, TRUE))
        /\ pc' = "read"
        /\ table' = 1
        /\ calls' = Append(calls, 1)
        /\ UNCHANGED << exc, failed >>
     \/ /\ ops' = Append(ops, Op("connect", 0, FALSE))
        /\ pc' = "except"
        /\ exc' = "OperationalError"
        /\ UNCHANGED << conn, table, calls, failed >>
  /\ UNCHANGED << exists, BATCH_SIZE, dtlib, path_i, df, rows, k, txn, db,
                  inserts, returned, escaped, reported, exit_status >>

\* df = pd.read_csv(csv_path, dtype=str)
Read ==
  /\ pc = "read"
  /\ \/ \E columns \in Headers(table), n \in 0..MaxRows :
          /\ df' = [df EXCEPT ![table] = read_csv(columns, n)]
          /\ pc' = "validate"
          /\ UNCHANGED << exc, failed >>
     \/ /\ Raise("ParserError")
        /\ UNCHANGED df
  /\ UNCHANGED << exists, BATCH_SIZE, dtlib, path_i, table, rows, k, conn, txn,
                  db, ops, inserts, calls, returned, escaped, reported,
                  exit_status >>

\* the loader without its column check: the first r[...] of a missing
\* column raises KeyError
Validate_KeyError ==
  /\ pc = "validate"
  /\ IF missing(table, df[table].columns) # << >>
     THEN Raise("KeyError")
     ELSE /\ pc' = "map"
          /\ UNCHANGED << exc, failed >>
  /\ UNCHANGED << exists, BATCH_SIZE, dtlib, path_i, table, df, rows, k, conn,
                  txn, db, ops, inserts, calls, returned, escaped, reported,
                  exit_status >>

\* missing = [...]; if missing: raise ValueError(...)
Validate ==
  /\ pc = "validate"
  /\ IF missing(table, df[table].columns) # << >>
     THEN Raise("ValueError")
     ELSE /\ pc' = "map"
          /\ UNCHANGED << exc, failed >>
  /\ UNCHANGED << exists, BATCH_SIZE, dtlib, path_i, table, df, rows, k, conn,
                  txn, db, ops, inserts, calls, returned, escaped, reported,
                  exit_status >>

\* rows = [...]; with conn.cursor() as cur: the chunk generator is created
MapRows ==
  /\ pc = "map"
  /\ rows' = map_rows(table, df[table].records, dtlib)
  /\ k' = 0
  /\ pc' = "insert"
  /\ UNCHANGED << exists, BATCH_SIZE, dtlib, path_i, table, df, conn, txn, db,
                  ops, inserts, calls, returned, failed, exc, escaped, reported,
                  exit_status >>

\* for chunk in chunk_iter(rows, BATCH_SIZE): execute_values(cur, sql, chunk)
Insert ==
  /\ pc = "insert"
  /\ IF chunk_raises(rows, BATCH_SIZE)
     THEN /\ Raise("ValueError")
          /\ UNCHANGED << k, txn, ops, inserts >>
     ELSE IF k < Len(chunk_iter(rows, BATCH_SIZE))
     THEN LET chunk == chunk_iter(rows, BATCH_SIZE)[k + 1] IN
          /\ inserts' = [inserts EXCEPT ![table] = Append(@, chunk)]
          /\ \/ /\ ops' = Append(ops, Op("insert", table, TRUE))
                /\ txn' = txn \o [i \in 1..Len(chunk) |-> << table, chunk[i] >>]
                /\ k' = k + 1
                /\ UNCHANGED << pc, exc, failed >>
             \/ /\ ops' = Append(ops, Op("insert", table, FALSE))
                /\ Raise("DatabaseError")
                /\ UNCHANGED << k, txn >>
     ELSE /\ pc' = "commit"
          /\ UNCHANGED << k, txn, ops, inserts, exc, failed >>
  /\ UNCHANGED << exists, BATCH_SIZE, dtlib, path_i, table, df, rows, conn, db,
                  calls, returned, escaped, reported, exit_status >>

committed_rows(t, pending) ==
  LET mine == SelectSeq(pending, LAMBDA e : e[1] = t)
  IN [i \in 1..Len(mine) |-> mine[i][2]]

\* conn.commit(); print("Insert complete."); the loader returns (its rows
\* are dropped with its frame) and main() calls the next one, or ends
Commit ==
  /\ pc = "commit"
  /\ \/ /\ ops' = Append(ops, Op("commit", table, TRUE))
        /\ db' = [t \in Tables |-> db[t] \o committed_rows(t, txn)]
        /\ txn' = << >>
        /\ returned' = returned \cup {table}
        /\ rows' = << >>
        /\ k' = 0
        /\ IF table = 3
           THEN pc' = "finally" /\ table' = 0 /\ UNCHANGED calls
           ELSE /\ pc' = "read"
                /\ table' = table + 1
                /\ calls' = Append(calls, table + 1)
        /\ UNCHANGED << exc, failed >>
     \/ /\ ops' = Append(ops, Op("commit", table, FALSE))
        /\ Raise("DatabaseError")
        /\ UNCHANGED << db, txn, returned, table, calls, rows, k >>
  /\ UNCHANGED << exists, BATCH_SIZE, dtlib, path_i, df, conn, inserts, escaped,
                  reported, exit_status >>

\* the except clause committing instead of rolling back
Except_Commits ==
  /\ pc = "except"
  /\ pc' = "finally"
  /\ IF conn = "open"
     THEN /\ ops' = Append(ops, Op("commit", table, TRUE))
          /\ db' = [t \in Tables |-> db[t] \o committed_rows(t, txn)]
          /\ txn' = << >>
     ELSE UNCHANGED << ops, txn, db >>
  /\ UNCHANGED << exists, BATCH_SIZE, dtlib, path_i, table, df, rows, k, conn,
                  inserts, calls, returned, failed, exc, escaped, reported,
                  exit_status >>

\* the except clause inside the loop over the loaders: after the rollback
\* the next loader is called
Except_Continues ==
  /\ pc = "except"
  /\ IF conn = "open"
     THEN /\ ops' = Append(ops, Op("rollback", 0, TRUE))
          /\ txn' = << >>
          /\ IF table < 3
             THEN /\ pc' = "read"
                  /\ table' = table + 1
                  /\ calls' = Append(calls, table + 1)
             ELSE pc' = "finally" /\ UNCHANGED << table, calls >>
     ELSE pc' = "finally" /\ UNCHANGED << ops, txn, table, calls >>
  /\ UNCHANGED << exists, BATCH_SIZE, dtlib, path_i, df, rows, k, conn, db,
                  inserts, returned, failed, exc, escaped, reported,
                  exit_status >>

\* except Exception as e: print; if conn: conn.rollback()
Except ==
  /\ pc = "except"
  /\ pc' = "finally"
  /\ IF conn = "open"
     THEN \/ /\ ops' = Append(ops, Op("rollback", 0, TRUE))
             /\ txn' = << >>
             /\ UNCHANGED escaped
          \/ /\ ops' = Append(ops, Op("rollback", 0, FALSE))
             /\ escaped' = TRUE
             /\ UNCHANGED txn
     ELSE UNCHANGED << ops, txn, escaped >>
  /\ UNCHANGED << exists, BATCH_SIZE, dtlib, path_i, table, df, rows, k, conn,
                  db, inserts, calls, returned, failed, exc, reported,
                  exit_status >>

\* close() at the end of the try block instead of in a finally clause: a
\* run that raised ends without closing
Finally_NoCloseOnError ==
  /\ pc = "finally"
  /\ pc' = "done"
  /\ IF conn = "open" /\ exc = ""
     THEN /\ conn' = "closed"
          /\ txn' = << >>
          /\ ops' = Append(ops, Op("close", 0, TRUE))
     ELSE UNCHANGED << conn, txn, ops >>
  /\ exit_status' = IF escaped THEN 1 ELSE 0
  /\ UNCHANGED << exists, BATCH_SIZE, dtlib, path_i, table, df, rows, k, db,
                  inserts, calls, returned, failed, exc, escaped, reported >>

\* an except clause that ends with raise: the caught exception leaves main()
Finally_Reraises ==
  /\ pc = "finally"
  /\ pc' = "done"
  /\ IF conn = "open"
     THEN /\ conn' = "closed"
          /\ txn' = << >>
          /\ ops' = Append(ops, Op("close", 0, TRUE))
     ELSE UNCHANGED << conn, txn, ops >>
  /\ exit_status' = IF escaped \/ exc # "" THEN 1 ELSE 0
  /\ UNCHANGED << exists, BATCH_SIZE, dtlib, path_i, table, df, rows, k, db,
                  inserts, calls, returned, failed, exc, escaped, reported >>

\* finally: if conn: conn.close(); print; the process ends
Finally ==
  /\ pc = "finally"
  /\ pc' = "done"
  /\ IF conn = "open"
     THEN /\ conn' = "closed"
          /\ txn' = << >>
          /\ \/ /\ ops' = Append(ops, Op("close", 0, TRUE))
                /\ UNCHANGED escaped
                /\ exit_status' = IF escaped THEN 1 ELSE 0
             \/ /\ ops' = Append(ops, Op("close", 0, FALSE))
                /\ escaped' = TRUE
                /\ exit_status' = 1
     ELSE /\ exit_status' = IF escaped THEN 1 ELSE 0
          /\ UNCHANGED << conn, txn, ops, escaped >>
  /\ UNCHANGED << exists, BATCH_SIZE, dtlib, path_i, table, df, rows, k, db,
                  inserts, calls, returned, failed, exc, reported >>

ChunkIdle == seq = << >> /\ size = 1 /\ groups = << >> /\ called = "no"

MapIdle ==
  /\ src_table = 1 /\ src = << >> /\ bad = << 0, "" >> /\ out = << >>
  /\ mapped = FALSE

Init == RunInit /\ ChunkIdle /\ MapIdle

Next ==
  \/ CheckPath /\ UNCHANGED << chunk_vars, map_vars >>
  \/ Connect /\ UNCHANGED << chunk_vars, map_vars >>
  \/ Read /\ UNCHANGED << chunk_vars, map_vars >>
  \/ Validate /\ UNCHANGED << chunk_vars, map_vars >>
  \/ MapRows /\ UNCHANGED << chunk_vars, map_vars >>
  \/ Insert /\ UNCHANGED << chunk_vars, map_vars >>
  \/ Commit /\ UNCHANGED << chunk_vars, map_vars >>
  \/ Except /\ UNCHANGED << chunk_vars, map_vars >>
  \/ Finally /\ UNCHANGED << chunk_vars, map_vars >>

Spec == Init /\ [][Next]_vars


\* a run that is not started: the state of the other specifications
RunIdle ==
  /\ RunInit
  /\ exists = [t \in Tables |-> TRUE]
  /\ BATCH_SIZE = 1

\* -------------------------------------------------- chunk_iter on its own
Elems == {"a", "b"}
Seqs(S, n) == UNION {[1..m -> S] : m \in 0..n}
ChunkSizes == {-1, 0} \cup (1..MaxSize)

ChunkInit ==
  /\ seq \in Seqs(Elems, MaxLen)
  /\ size \in ChunkSizes
  /\ groups = << >>
  /\ called = "no"

\* list(chunk_iter(seq, size))
ChunkCall ==
  /\ called = "no"
  /\ IF chunk_raises(seq, size)
     THEN called' = "raised" /\ groups' = << >>
     ELSE called' = "yielded" /\ groups' = chunk_iter(seq, size)
  /\ UNCHANGED << seq, size >>

InitChunk == RunIdle /\ dtlib = "parse" /\ ChunkInit /\ MapIdle
NextChunk == ChunkCall /\ UNCHANGED << run_vars, map_vars >>
SpecChunk == InitChunk /\ [][NextChunk]_vars

\* ---------------------------------------------- row mapping on its own
Kind(t, c) ==
  LET j == CHOOSE j \in 1..Len(required(t)) : required(t)[j] = c
  IN ColumnKinds(t)[j]

GoodFor(kind) ==
  CASE kind = "int" -> GoodInt
    [] kind = "Decimal" -> GoodDecimal
    [] kind = "date" -> GoodDate
    [] kind = "text" -> GoodText

Blank == {NaN, << " ", " " >>}
Junk == {<< "x", "y" >>, << "1", "2", ".", "5", "x" >>, << "-" >>}
NotAnInt == << "1", "2", ".", "5" >>
BadRaws == Blank \cup Junk \cup {NotAnInt}
Bases == {"good", "blank", "junk"}

BaseRaw(base, t, c) ==
  CASE base = "good" -> GoodFor(Kind(t, c))
    [] base = "blank" -> NaN
    [] base = "junk" -> << "x", "y" >>

\* a file of table t: every record follows a base, and the field at
\* position b (record, column) holds the raw text v
SourceFile(t, bases, b, v) ==
  [i \in 1..Len(bases) |->
     [c \in RequiredSet(t) |->
        IF << i, c >> = b THEN v ELSE BaseRaw(bases[i], t, c)]]

MapInit ==
  /\ src_table \in Tables
  /\ \E bases \in Seqs(Bases, MaxRecords) :
       \/ /\ bases = << >>
          /\ bad = << 0, "" >>
          /\ src = << >>
       \/ /\ bad \in (1..Len(bases)) \X RequiredSet(src_table)
          /\ \E v \in BadRaws : src = SourceFile(src_table, bases, bad, v)
  /\ out = << >>
  /\ mapped = FALSE

\* rows = [...] of one loader
MapCall ==
  /\ ~mapped
  /\ mapped' = TRUE
  /\ out' = map_rows(src_table, src, dtlib)
  /\ UNCHANGED << src_table, src, bad >>

InitMap == RunIdle /\ ChunkIdle /\ MapInit
NextMap == MapCall /\ UNCHANGED << run_vars, chunk_vars >>
SpecMap == InitMap /\ [][NextMap]_vars


\* ================================================================== claims
RECURSIVE Concat(_)
Concat(ss) == IF ss = << >> THEN << >> ELSE Head(ss) \o Concat(Tail(ss))

OpsAt(name) == {i \in DOMAIN ops : ops[i].op = name}
OpsOn(t) == {i \in DOMAIN ops : ops[i].t = t}
Done == pc = "done"
AllExist == \A t \in Tables : exists[t]
FileRows(t) == map_rows(t, df[t].records, dtlib)

\* C1 (as stated): when main() ends after a failure while loading table k, no
\* row of table k and no row of any earlier table 1..k-1 is committed.
C1_AsStated ==
  (Done /\ failed # 0) => \A t \in 1..failed : db[t] = << >>

\* C1 (amended): when main() ends after a failure while loading table k, no
\* row of table k is committed, and every earlier table 1..k-1 was committed
\* by its own loader and still holds exactly the rows that loader inserted.
C1_FailureLeavesOnlyTableKUncommitted ==
  (Done /\ failed # 0) =>
    /\ db[failed] = << >>
    /\ txn = << >>
    /\ \A t \in 1..(failed - 1) :
         /\ t \in returned
         /\ db[t] = Concat(inserts[t])
         /\ \E i \in OpsAt("commit") : ops[i] = Op("commit", t, TRUE)

C1_Witness ==
  /\ Done /\ failed = 2 /\ db[1] # << >> /\ inserts[2] # << >>
  /\ db[2] = << >>

\* C2: at the end of any run, every table whose loader returned holds all
\* rows of its file committed, and the table whose loader failed and all
\* tables after it hold no committed row.
C2_CommittedTablesHoldTheirFile ==
  Done =>
    \A t \in Tables :
      IF t \in returned THEN db[t] = FileRows(t) ELSE db[t] = << >>

\* C3: the loaders run in the order 1, 2, 3, each started only after the
\* previous one committed; the first exception of a loader is followed by a
\* rollback, no further loader is started, and nothing but the close is
\* issued on the connection after the rollback.
C3_LoadersInOrderAndStopAtFirstFailure ==
  /\ calls = [i \in 1..Len(calls) |-> i]
  /\ Len(calls) <= 3
  /\ \A i \in 2..Len(calls) : (i - 1) \in returned
  /\ \A i \in DOMAIN ops :
       ops[i].op \in {"insert", "commit"} =>
         /\ \A t \in 1..(ops[i].t - 1) :
              \E h \in 1..(i - 1) : ops[h] = Op("commit", t, TRUE)
         /\ \A h \in 1..(i - 1) : ops[h].t <= ops[i].t
         /\ \A h \in 1..(i - 1) : ops[h] # Op("commit", ops[i].t, TRUE)
  /\ \A i \in OpsAt("rollback") :
       \A j \in (i + 1)..Len(ops) : ops[j].op = "close"
  /\ failed # 0 =>
       /\ table = failed
       /\ calls = [i \in 1..failed |-> i]
       /\ \A t \in (failed + 1)..3 : df[t] = NoFrame /\ inserts[t] = << >>
       /\ pc \in {"finally", "done"} => OpsAt("rollback") # {}

C3_Witness ==
  /\ Done /\ failed = 2 /\ 1 \in returned /\ inserts[2] # << >>
  /\ ops[Len(ops) - 1] = Op("rollback", 0, TRUE)

\* C4: when a configured path does not exist the run ends at the first
\* missing path, in the order text, violations, dataset, and no connect,
\* insert, commit, rollback or close is ever performed.
C4_MissingFileAbortsBeforeAnyConnection ==
  /\ ~AllExist => (ops = << >> /\ conn = "None" /\ calls = << >>)
  /\ (Done /\ ~AllExist) =>
       /\ reported \in Tables
       /\ ~exists[reported]
       /\ \A t \in 1..(reported - 1) : exists[t]
       /\ exit_status = 1
  /\ reported # 0 => ~exists[reported]

C4_Witness ==
  Done /\ reported = 2 /\ exists[1] /\ exists[3] /\ ops = << >>

\* C5: at most one connection is opened; an opened connection is closed
\* exactly once before main() ends, also when a loader raised and when the
\* rollback itself failed; nothing is issued on it after the close.
C5_OneConnectionClosedOnce ==
  /\ Cardinality(OpsAt("connect")) <= 1
  /\ Cardinality(OpsAt("close")) <= 1
  /\ \A i \in OpsAt("connect") : i = 1
  /\ \A i \in OpsAt("close") : i = Len(ops)
  /\ \A i \in DOMAIN ops : ops[i].op # "connect" => ops[1] = Op("connect", 0, TRUE)
  /\ Done => (conn # "open" /\ (conn = "closed" <=> OpsAt("close") # {}))
  /\ Done => (Op("connect", 0, TRUE) \in {ops[i] : i \in DOMAIN ops}
                <=> Cardinality(OpsAt("close")) = 1)

C5_Witness ==
  /\ Done /\ Len(ops) >= 3
  /\ ops[Len(ops) - 1] = Op("rollback", 0, FALSE)
  /\ ops[Len(ops)].op = "close"

\* C6: a loader whose file lacks a required column raises the ValueError
\* before any row is mapped and issues no insert and no commit for its
\* table; main() rolls back and starts no further loader.
C6_MissingColumnRaisesBeforeAnyInsert ==
  \A t \in Tables :
    (df[t] # NoFrame /\ missing(t, df[t].columns) # << >>
       /\ ~(pc = "validate" /\ table = t)) =>
      /\ failed = t /\ exc = "ValueError"
      /\ rows = << >>
      /\ inserts[t] = << >>
      /\ \A i \in OpsOn(t) : ops[i].op \notin {"insert", "commit"}
      /\ db[t] = << >>
      /\ calls = [i \in 1..t |-> i]
      /\ pc \in {"except", "finally", "done"}
      /\ pc \in {"finally", "done"} => OpsAt("rollback") # {}

C6_Witness ==
  /\ Done /\ failed = 2 /\ exc = "ValueError"
  /\ "controller" \notin df[2].columns
  /\ Len(df[2].records) > 0
  /\ db[1] # << >>

FailedOps == {i \in DOMAIN ops : ~ops[i].ok}
CleanupRaised ==
  \E i \in FailedOps : ops[i].op \in {"rollback", "close"}

ceil_div(a, b) ==
  IF b > 0 THEN (a + b - 1) \div b ELSE -(a \div (-b))

\* C9: a loader that reaches its commit has produced exactly L row tuples in
\* file order and issued exactly ceil(L / BATCH_SIZE) inserts, in batch
\* order, each carrying the next at most BATCH_SIZE tuples, so that every
\* row tuple was passed to exactly one insert.
C9_OneInsertPerBatch ==
  (pc = "commit") =>
    /\ rows = FileRows(table)
    /\ Len(rows) = Len(df[table].records)
    /\ Len(inserts[table]) = ceil_div(Len(rows), BATCH_SIZE)
    /\ Concat(inserts[table]) = rows
    /\ \A j \in DOMAIN inserts[table] : Len(inserts[table][j]) <= BATCH_SIZE


\* C8: for a chunk size n >= 1, chunk_iter(seq, n) on a sequence of length L
\* yields ceil(L / n) groups whose concatenation is seq in order; every
\* group but the last has exactly n elements, the last holds the non-empty
\* remainder, and for L = 0 there is no group.
C8_ChunksPartitionTheSequence ==
  (called # "no" /\ size >= 1) =>
    /\ called = "yielded"
    /\ Len(groups) = ceil_div(Len(seq), size)
    /\ Concat(groups) = seq
    /\ \A j \in 1..(Len(groups) - 1) : Len(groups[j]) = size
    /\ groups # << >> =>
         /\ Len(groups[Len(groups)]) \in 1..size
         /\ Len(groups[Len(groups)]) = Len(seq) - size * (Len(groups) - 1)
    /\ seq = << >> => groups = << >>

C8_Witness ==
  /\ called = "yielded" /\ size = 2 /\ Len(seq) = 3
  /\ groups = << SubSeq(seq, 1, 2), SubSeq(seq, 3, 3) >>

\* the raw text a field must hold to be well-formed for its column
IsBlank(v) == isna(v) \/ strip(v) = << >>
Absent(kind) == IF kind = "text" THEN TextVal(<< >>) ELSE None
Repaired ==
  [i \in DOMAIN src |->
     [c \in DOMAIN src[i] |->
        IF << i, c >> = bad THEN GoodFor(Kind(src_table, c)) ELSE src[i][c]]]

\* C10: a file with all required columns gives exactly one row tuple per
\* record, in order, whatever its fields hold: no coercer raises, a blank
\* or malformed field becomes None (integer, decimal, date columns) or the
\* empty string (text columns) in its position only, and every other field
\* of every row has the value it has when the bad field is well-formed.
C10_BadFieldNeverDropsARow ==
  mapped =>
    /\ Len(out) = Len(src)
    /\ \A i \in DOMAIN out :
         /\ Len(out[i]) = Len(required(src_table))
         /\ \A j \in DOMAIN out[i] :
              LET c == required(src_table)[j]
                  kind == ColumnKinds(src_table)[j]
              IN /\ out[i][j].kind \in {kind, "None"}
                 /\ kind = "text" => out[i][j] = TextVal(IF isna(src[i][c]) THEN << >> ELSE strip(src[i][c]))
                 /\ IsBlank(src[i][c]) => out[i][j] = Absent(kind)
                 /\ (kind # "text" /\ src[i][c] \in Junk) => out[i][j] = None
                 /\ (kind = "int" /\ src[i][c] = NotAnInt) => out[i][j] = None
                 /\ (kind # "text" /\ src[i][c] = GoodFor(kind) /\ dtlib = "parse")
                      => out[i][j].kind = kind
                 /\ << i, c >> # bad =>
                      out[i][j] = map_rows(src_table, Repaired, dtlib)[i][j]

C10_Witness ==
  /\ mapped /\ src_table = 2 /\ Len(src) = 2 /\ dtlib = "parse"
  /\ bad = << 1, "date" >> /\ src[1]["date"] = << "x", "y" >>
  /\ src[2]["date"] = GoodDate
  /\ out[1][6] = None /\ out[2][6] = DateVal(2020, 2, 29)
  /\ out[1][4] = DecimalVal(123450, -2)

====
